---------------------------- MODULE Spec2Model ----------------------------
(***************************************************************************)
(* envx-cli: encrypt / decrypt / copy of per-stage environment files.      *)
(*                                                                         *)
(* The model follows the command handlers of the repository:               *)
(*   encrypt  executeEncrypt, processAllEnvironments,                      *)
(*            processSingleEnvironment            (commands/encrypt.ts)    *)
(*   decrypt  executeDecrypt                      (commands/decrypt.ts)    *)
(*   copy     executeCopy, processSingleEnvironment,                       *)
(*            processAllDirectories               (commands/copy.ts)       *)
(* over a small file tree, with GPG and the prompts as the environment.    *)
(***************************************************************************)
EXTENDS Integers, Sequences, FiniteSets, TLC

(***************************************************************************)
(* Bounds of the model.                                                    *)
(***************************************************************************)
NumEnvs == 2        \* number of environment names that may have files
MaxFiles == 2       \* number of files in the initial file tree
MaxListLen == 3     \* length of a directory listing given to discovery

(***************************************************************************)
(* Names.  A file name is the sequence of its dot-separated tokens:        *)
(* ".env.production.gpg" is <<"", "env", "production", "gpg">>.            *)
(***************************************************************************)
None == "none"

\* the tokens of the model in the order of Array.prototype.sort (code units)
TokenOrder ==
  <<"", "backup", "development", "env", "envrc", "example", "file", "gpg",
    "other", "production", "staging", "template", "test">>

Rank(t) == CHOOSE i \in 1..Len(TokenOrder) : TokenOrder[i] = t

EnvOrder == <<"development", "production", "staging", "test">>

Envs == {EnvOrder[i] : i \in 1..NumEnvs}

\* an --environment value in another case than the files of the tree
MixedCase == "Development"

\* String.prototype.toLowerCase on the names of the model
toLowerCase(e) == IF e = MixedCase THEN "development" ELSE e

PlainName(e) == <<"", "env", e>>
GpgName(e) == <<"", "env", e, "gpg">>
DotEnvName == <<"", "env">>

(***************************************************************************)
(* Environment discovery.                                                  *)
(***************************************************************************)
\* the pattern without its optional (\.gpg)? group
MatchEnvFilePlainOnly(name) ==
  IF Len(name) = 3 /\ name[1] = "" /\ name[2] = "env" /\ name[3] # ""
  THEN name[3]
  ELSE None

\* file.match(/^\.env\.([^.]+)(\.gpg)?$/): the captured token, or None
MatchEnvFile(name) ==
  IF /\ Len(name) \in {3, 4}
     /\ name[1] = ""
     /\ name[2] = "env"
     /\ name[3] # ""
     /\ (Len(name) = 4 => name[4] = "gpg")
  THEN name[3]
  ELSE None

\* the Set the file names are added to
EnvironmentSet(files) ==
  {MatchEnvFile(files[i]) : i \in 1..Len(files)} \ {None, "example", "template"}

\* Array.from(set).sort()
RECURSIVE SortTokens(_)
SortTokens(S) ==
  IF S = {} THEN <<>>
  ELSE LET first == CHOOSE t \in S : \A u \in S : Rank(t) <= Rank(u)
       IN  <<first>> \o SortTokens(S \ {first})

findAllEnvironments(files) == SortTokens(EnvironmentSet(files))

(***************************************************************************)
(* The file tree.  "root" is the working directory of the command and      *)
(* "api" a subdirectory of it; each directory may hold .env.<e>,           *)
(* .env.<e>.gpg and .env.                                                  *)
(***************************************************************************)
DirOrder == <<"root", "api">>

Dirs == {DirOrder[i] : i \in 1..Len(DirOrder)}

\* the directories a recursive search from cwd visits, in sorted order
Under(cwd) == IF cwd = "root" THEN DirOrder ELSE <<cwd>>

Contents == {"A", "B"}

DotEnvContent == "Z"

\* what a failed tool run may leave in its output file
Partial == "partial"

\* passphrases: the --passphrase value, the .envrc values, the typed one
ExplicitPass == "xxxx"
BlankPass == " "
CustomValue == "cccc"
ConventionValue == "vvvv"
TypedPass == "qqqq"

\* passphrase.trim()
Trim(s) == IF s = BlankPass THEN "" ELSE s

\* gpg -c: symmetric encryption of content pt under key; salt makes each
\* run's output different
Cipher(pt, key, salt) == [pt |-> pt, key |-> key, salt |-> salt]

\* the ciphertexts of the initial tree were made with the convention secret
InitialCipher == Cipher("A", ConventionValue, 0)

\* no .gpg file, and a .gpg file a failed run left half written
NoCipher == Cipher(None, None, 0)
PartialCipher == Cipher(Partial, None, 0)

\* gpg -d succeeds exactly on a well-formed ciphertext under its own key
Decrypts(c, key) == c.key # None /\ c.key = key

Positions ==
  [kind : {"plain", "gpg"}, dir : Dirs, env : Envs]
    \cup [kind : {"dotenv"}, dir : Dirs, env : {None}]

FileSets == {S \in SUBSET Positions : Cardinality(S) <= MaxFiles}

PlainOf(S, c) ==
  [d \in Dirs |-> [e \in Envs |->
     IF [kind |-> "plain", dir |-> d, env |-> e] \in S THEN c[d] ELSE None]]

GpgOf(S) ==
  [d \in Dirs |-> [e \in Envs |->
     IF [kind |-> "gpg", dir |-> d, env |-> e] \in S
     THEN InitialCipher ELSE NoCipher]]

DotEnvOf(S) ==
  [d \in Dirs |->
     IF [kind |-> "dotenv", dir |-> d, env |-> None] \in S
     THEN DotEnvContent ELSE None]

(***************************************************************************)
(* .envrc: the keys it defines; a key it defines has a non-empty value.    *)
(***************************************************************************)
CustomKey == "CUSTOM_KEY"

\* FileUtils.generateSecretVariableName: `${stage.toUpperCase()}_SECRET`
generateSecretVariableName(e) ==
  CASE e = "development" -> "DEVELOPMENT_SECRET"
    [] e = MixedCase -> "DEVELOPMENT_SECRET"
    [] e = "production" -> "PRODUCTION_SECRET"
    [] e = "staging" -> "STAGING_SECRET"
    [] e = "test" -> "TEST_SECRET"
    [] OTHER -> "_SECRET"

EnvrcKeys == {CustomKey} \cup {generateSecretVariableName(e) : e \in Envs}

EnvrcValue(k) == IF k = CustomKey THEN CustomValue ELSE ConventionValue

\* envrcConfig[key]: the value, or "" for undefined (both are falsy)
Lookup(config, k) == IF k \in config THEN EnvrcValue(k) ELSE ""

(***************************************************************************)
(* State.                                                                  *)
(***************************************************************************)
VARIABLES
  opts,          \* rawOptions of the command, and the command itself
  plain,         \* plain[d][e]: content of d/.env.<e>, or None
  gpg,           \* gpg[d][e]: content of d/.env.<e>.gpg, or NoCipher
  dotenv,        \* dotenv[d]: content of d/.env, or None
  backups,       \* the backup files: [dir, file, content]
  envrc,         \* the keys of .envrc, fixed when the file is first read
  gpgAvailable,  \* whether gpg --version works, fixed at the first check
  pc,            \* "start", "run" (the loop over the items), "done"
  exitCode,      \* exit status once pc = "done"
  listing,       \* the file names of the working directory
  environments,  \* result of findAllEnvironments
  queue,         \* the items of the run: [env, dir]
  idx,           \* index of the next item of the queue
  results,       \* results of processAllEnvironments / processAllDirectories
  totalSuccess,
  totalErrors,
  active,        \* indices of the items whose processing has begun and whose
                 \* result is not yet recorded
  cur,           \* locals of the processSingleEnvironment call in progress
  discovered,    \* whether findAllEnvironments has run
  gpgOps,        \* number of GPG invocations made so far, by kind
  thrown,        \* indices of the items whose call threw
  backedUp,      \* the files createBackup was called for: [dir, file]
  prompted,      \* kinds of prompt shown so far
  salt,          \* number of encryptions made
  fs0,           \* the file tree the command started from
  temps          \* the temporary files of encrypt's comparison: [dir, env,
                 \* content]

vars ==
  <<opts, plain, gpg, dotenv, backups, envrc, gpgAvailable, pc, exitCode,
    listing, environments, queue, idx, results, totalSuccess, totalErrors,
    active, cur, discovered, gpgOps, thrown, backedUp, prompted, salt, fs0,
    temps>>

fsVars == <<plain, gpg, dotenv, backups>>

Tree == [plain |-> plain, gpg |-> gpg, dotenv |-> dotenv, backups |-> backups]

Idle ==
  [item |-> 0, env |-> None, dir |-> None, passphrase |-> "", files |-> <<>>,
   fidx |-> 0, successCount |-> 0, errorCount |-> 0, backup |-> {},
   phase |-> "idle", source |-> None, tested |-> "no"]

Running == -1

\* the GPG invocations: gpg --version, the self-test, gpg -c, gpg -d
GpgKinds == {"version", "test", "encrypt", "decrypt"}

NoGpg == [k \in GpgKinds |-> 0]

Invoke(ops, k) == [ops EXCEPT ![k] = @ + 1]

\* option values of the commands (createEncryptCommand, createDecryptCommand,
\* createCopyCommand) and of the command line: decrypt declares no --all,
\* copy no --interactive, encrypt no --overwrite
CommandOptions ==
  [cmd : {"encrypt"}, all : BOOLEAN, interactive : BOOLEAN,
   overwrite : {FALSE}]
    \cup [cmd : {"decrypt"}, all : BOOLEAN, interactive : BOOLEAN,
          overwrite : BOOLEAN]
    \cup [cmd : {"copy"}, all : BOOLEAN, interactive : {FALSE},
          overwrite : BOOLEAN]

OptionSets ==
  {[cmd |-> c.cmd, all |-> c.all, interactive |-> c.interactive,
    overwrite |-> c.overwrite, environment |-> e, passphrase |-> p,
    secret |-> s] :
     c \in CommandOptions, e \in {"", EnvOrder[1], MixedCase},
     p \in {"", BlankPass, ExplicitPass}, s \in {"", CustomKey}}

\* the names of the files of the working directory
RECURSIVE SeqOf(_)
SeqOf(S) ==
  IF S = {} THEN <<>>
  ELSE LET x == CHOOSE y \in S : TRUE IN <<x>> \o SeqOf(S \ {x})

RootListing(pl, gp, de) ==
  SeqOf({PlainName(e) : e \in {x \in Envs : pl["root"][x] # None}}
          \cup {GpgName(e) : e \in {x \in Envs : gp["root"][x] # NoCipher}}
          \cup (IF de["root"] # None THEN {DotEnvName} ELSE {}))

Init ==
  /\ opts \in OptionSets
  /\ \E S \in FileSets, c \in [Dirs -> Contents] :
       /\ plain = PlainOf(S, c)
       /\ gpg = GpgOf(S)
       /\ dotenv = DotEnvOf(S)
  /\ backups = {}
  /\ envrc = [read |-> FALSE, keys |-> {}]
  /\ gpgAvailable = "unknown"
  /\ pc = "start"
  /\ exitCode = Running
  /\ listing = RootListing(plain, gpg, dotenv)
  /\ environments = <<>>
  /\ queue = <<>>
  /\ idx = 1
  /\ results = <<>>
  /\ totalSuccess = 0
  /\ totalErrors = 0
  /\ active = {}
  /\ cur = Idle
  /\ discovered = FALSE
  /\ gpgOps = NoGpg
  /\ thrown = {}
  /\ backedUp = {}
  /\ prompted = {}
  /\ salt = 0
  /\ fs0 = Tree
  /\ temps = {}

(***************************************************************************)
(* FileUtils.findEnvFiles(environment, cwd): the candidate files of the    *)
(* environment below cwd, plaintext candidates first; an encrypted         *)
(* candidate carries the path of its plaintext counterpart.  The files are *)
(* looked up under the lowercase name.                                     *)
(***************************************************************************)
EnvFile(d, e, enc) ==
  LET name == toLowerCase(e)
  IN  [dir |-> d, env |-> name, encrypted |-> enc,
       exists |-> IF enc THEN gpg[d][name] # NoCipher ELSE plain[d][name] # None]

findEnvFiles(e, cwd) ==
  LET ds == Under(cwd)
  IN  [i \in 1..Len(ds) |-> EnvFile(ds[i], e, FALSE)]
        \o [i \in 1..Len(ds) |-> EnvFile(ds[i], e, TRUE)]

Exists(f) == f.exists
Unencrypted(f) == ~f.encrypted /\ f.exists
Encrypted(f) == f.encrypted /\ f.exists

Item(e, d) == [env |-> e, dir |-> d]

Includes(seq, x) == \E i \in 1..Len(seq) : seq[i] = x

(***************************************************************************)
(* The command handlers up to the loop over the items.  An outcome is the  *)
(* exit status (Running while the command goes on) with the values the     *)
(* handler has set.                                                        *)
(***************************************************************************)
Start ==
  [exit |-> Running, queue |-> <<>>, environments |-> <<>>,
   discovered |-> FALSE, gpgAvailable |-> gpgAvailable, gpgOps |-> gpgOps,
   prompted |-> prompted]

\* ExecUtils.isGpgAvailable: gpg --version
GpgAnswers == IF gpgAvailable = "unknown" THEN {"yes", "no"} ELSE {gpgAvailable}

\* a check that lets the command go on without gpg
GpgMissingIgnored(a) == FALSE

\* `if (!ExecUtils.isGpgAvailable())`
GpgMissing(a) == a = "no"

GpgChecked(o, a) ==
  [o EXCEPT !.gpgAvailable = a, !.gpgOps = Invoke(@, "version")]

Discovered(o) ==
  [o EXCEPT !.environments = findAllEnvironments(listing),
            !.discovered = TRUE]

\* the selection without "Validate environment exists"
ChooseEnvironmentUnchecked(o) ==
  LET found == o.environments
      asked == [o EXCEPT !.prompted = @ \cup {"environment"}]
  IN  IF opts.environment # ""
      THEN {[o EXCEPT !.queue = <<Item(opts.environment, "root")>>]}
      ELSE IF Len(found) = 1
      THEN {[o EXCEPT !.queue = <<Item(found[1], "root")>>]}
      ELSE {[asked EXCEPT !.queue = <<Item(found[i], "root")>>] :
              i \in 1..Len(found)}
             \cup {[asked EXCEPT !.exit = 1]}

\* environment selection and "Validate environment exists"
ChooseEnvironment(o) ==
  LET found == o.environments
      checked(e, out) ==
        IF Includes(found, e)
        THEN [out EXCEPT !.queue = <<Item(e, "root")>>]
        ELSE [out EXCEPT !.exit = 1]
      asked == [o EXCEPT !.prompted = @ \cup {"environment"}]
  IN  IF opts.environment # "" THEN {checked(opts.environment, o)}
      ELSE IF Len(found) = 1 THEN {checked(found[1], o)}
      ELSE {checked(found[i], asked) : i \in 1..Len(found)}
             \cup {[asked EXCEPT !.exit = 1]}

\* the validation without its check of --interactive
AllFlagConflictEnvironmentOnly == opts.all /\ opts.environment # ""

\* "Validate --all flag compatibility" of executeEncrypt
AllFlagConflict == opts.all /\ (opts.environment # "" \/ opts.interactive)

EncryptStart ==
  IF AllFlagConflict THEN {[Start EXCEPT !.exit = 1]}
  ELSE UNION {
    IF GpgMissing(a) THEN {[GpgChecked(Start, a) EXCEPT !.exit = 1]}
    ELSE LET o == Discovered(GpgChecked(Start, a))
         IN  IF o.environments = <<>> THEN {[o EXCEPT !.exit = 0]}
             ELSE IF opts.all
               THEN {[o EXCEPT !.queue =
                        [i \in 1..Len(o.environments) |->
                           Item(o.environments[i], "root")]]}
               ELSE ChooseEnvironment(o) : a \in GpgAnswers}

\* createDecryptCommand declares no '-a, --all': the command line parser
\* rejects the option and the action is never called
UnknownOption == opts.cmd = "decrypt" /\ opts.all

DecryptStart ==
  IF UnknownOption THEN {[Start EXCEPT !.exit = 1]}
  ELSE UNION {
    IF GpgMissing(a) THEN {[GpgChecked(Start, a) EXCEPT !.exit = 1]}
    ELSE LET o == Discovered(GpgChecked(Start, a))
         IN  IF o.environments = <<>> THEN {[o EXCEPT !.exit = 0]}
             ELSE ChooseEnvironment(o) : a \in GpgAnswers}

\* processAllDirectories up to its loop: the directories holding a file of
\* the environment, sorted
Directories(e) ==
  SelectSeq(DirOrder,
            LAMBDA d : \E i \in 1..Len(findEnvFiles(e, "root")) :
                          /\ findEnvFiles(e, "root")[i].exists
                          /\ findEnvFiles(e, "root")[i].dir = d)

CopyStart ==
  IF opts.all /\ opts.environment = "" THEN {[Start EXCEPT !.exit = 1]}
  ELSE LET o == Discovered(Start)
       IN  IF o.environments = <<>> THEN {[o EXCEPT !.exit = 0]}
           ELSE IF opts.all
             THEN LET dirs == Directories(opts.environment)
                  IN  IF dirs = <<>> THEN {[o EXCEPT !.exit = 0]}
                      ELSE {[o EXCEPT !.queue =
                               [i \in 1..Len(dirs) |->
                                  Item(opts.environment, dirs[i])]]}
             ELSE ChooseEnvironment(o)

Execute(outcomes) ==
  \E o \in outcomes :
    /\ pc' = IF o.exit = Running THEN "run" ELSE "done"
    /\ exitCode' = o.exit
    /\ queue' = o.queue
    /\ environments' = o.environments
    /\ discovered' = o.discovered
    /\ gpgAvailable' = o.gpgAvailable
    /\ gpgOps' = o.gpgOps
    /\ prompted' = o.prompted
    /\ UNCHANGED <<opts, temps, fsVars, envrc, listing, idx, results, totalSuccess,
                   totalErrors, active, cur, thrown, backedUp, salt, fs0>>

executeEncrypt == pc = "start" /\ opts.cmd = "encrypt" /\ Execute(EncryptStart)

executeDecrypt == pc = "start" /\ opts.cmd = "decrypt" /\ Execute(DecryptStart)

executeCopy == pc = "start" /\ opts.cmd = "copy" /\ Execute(CopyStart)

(***************************************************************************)
(* Passphrase resolution ("Get passphrase" of the three commands).         *)
(***************************************************************************)
\* FileUtils.readEnvrc: the file does not change during the run
EnvrcAnswers == IF envrc.read THEN {envrc.keys} ELSE SUBSET EnvrcKeys

\* a prompt that accepts an empty input
TypedPassesUnchecked == {TypedPass, ConventionValue, ""}

\* what InteractiveUtils.promptPassphrase accepts: not blank, 4 characters
TypedPasses == {TypedPass, ConventionValue}

\* encrypt and copy: `!passphrase || passphrase.trim() === ''`
\* decrypt:          `!passphrase`
NeedsLookup(p) == IF opts.cmd = "decrypt" THEN p = "" ELSE Trim(p) = ""

\* a lookup that always asks
PassphraseSourcePrompt(config, e) == "prompt"

\* the branch of the lookup that supplies the passphrase
PassphraseSource(config, e) ==
  IF opts.secret # "" /\ Lookup(config, opts.secret) # "" THEN "custom"
  ELSE IF Lookup(config, generateSecretVariableName(e)) # "" THEN "convention"
  ELSE "prompt"

Resolved(p, src, rc, pr, threw) ==
  [passphrase |-> p, source |-> src, envrc |-> rc, prompted |-> pr,
   threw |-> threw]

Resolve(e) ==
  IF ~NeedsLookup(opts.passphrase)
  THEN {Resolved(opts.passphrase, "provided", envrc, prompted, FALSE)}
  ELSE UNION {
    LET rc == [read |-> TRUE, keys |-> config]
        source == PassphraseSource(config, e)
        asked == prompted \cup {"passphrase"}
    IN  IF source = "custom"
        THEN {Resolved(Lookup(config, opts.secret), source, rc, prompted,
                       FALSE)}
        ELSE IF source = "convention"
        THEN {Resolved(Lookup(config, generateSecretVariableName(e)), source,
                       rc, prompted, FALSE)}
        ELSE {Resolved(t, source, rc, asked, FALSE) : t \in TypedPasses}
               \cup {Resolved("", source, rc, asked, TRUE)}
    : config \in EnvrcAnswers}

(***************************************************************************)
(* Prompts.                                                                *)
(***************************************************************************)
\* the elements of s at the indices I, in order
Pick(s, I) ==
  LET n == Cardinality(I)
      f == CHOOSE g \in [1..n -> I] : \A a, b \in 1..n : a < b => g[a] < g[b]
  IN  [k \in 1..n |-> s[f[k]]]

\* InteractiveUtils.selectFiles on more than one file: at least one is chosen
FileSelections(s) == {Pick(s, I) : I \in (SUBSET (1..Len(s))) \ {{}}}

(***************************************************************************)
(* encrypt: processSingleEnvironment up to its loop over the files.        *)
(* An outcome is the locals of the call (cur) with the values it has set;  *)
(* cur.phase is "files" when the loop is entered, "returned" when the call *)
(* returned before it, "threw" when it threw.                              *)
(***************************************************************************)
\* encryptSchema / decryptSchema: environment and passphrase min(1)
ValidOptions(e, p) == e # "" /\ p # ""

Prepared(c, rc, ops, pr) ==
  [cur |-> c, envrc |-> rc, gpgOps |-> ops, prompted |-> pr,
   gpgAvailable |-> gpgAvailable, backups |-> backups,
   backedUp |-> backedUp]

\* ExecUtils.testGpgOperation: the result of the external tool
TestResults == BOOLEAN

\* a self-test whose failure is not looked at
TestFailedIgnored(ok) == FALSE

\* `if (!gpgTest.success) throw new Error(...)`
TestFailed(ok) == ~ok

\* the outcomes of a call whose self-test gave ok
SelfTested(outcomes, ok) ==
  {[o EXCEPT !.cur.tested = IF ok THEN "passed" ELSE "failed"] :
     o \in outcomes}

EncryptPrepare(i) ==
  LET it == queue[i]
      isPartOfAll == opts.all
  IN UNION {
    LET base == [Idle EXCEPT !.item = i, !.env = it.env, !.dir = it.dir,
                             !.passphrase = r.passphrase,
                             !.source = r.source]
        threw == [base EXCEPT !.phase = "threw"]
        returned == [base EXCEPT !.phase = "returned"]
        tested == Invoke(gpgOps, "test")
        unencryptedFiles == SelectSeq(findEnvFiles(it.env, it.dir), Unencrypted)
        selecting ==
          opts.interactive /\ Len(unencryptedFiles) > 1 /\ ~isPartOfAll
        confirming == ~opts.interactive /\ ~isPartOfAll
    IN  IF r.threw THEN {Prepared(threw, r.envrc, gpgOps, r.prompted)}
        ELSE IF ~isPartOfAll /\ ~ValidOptions(it.env, r.passphrase)
        THEN {Prepared(threw, r.envrc, gpgOps, r.prompted)}
        ELSE UNION {
          SelfTested((
          IF TestFailed(ok) THEN {Prepared(threw, r.envrc, tested, r.prompted)}
          ELSE IF unencryptedFiles = <<>>
          THEN {Prepared(returned, r.envrc, tested, r.prompted)}
          ELSE IF selecting
          THEN {Prepared([base EXCEPT !.phase = "files", !.files = sel,
                                      !.fidx = 1],
                         r.envrc, tested, r.prompted \cup {"files"}) :
                  sel \in FileSelections(unencryptedFiles)}
                 \cup {Prepared(threw, r.envrc, tested,
                                r.prompted \cup {"files"})}
          ELSE IF confirming
          THEN {Prepared([base EXCEPT !.phase = "files",
                                      !.files = unencryptedFiles, !.fidx = 1],
                         r.envrc, tested, r.prompted \cup {"confirm"}),
                Prepared(returned, r.envrc, tested,
                         r.prompted \cup {"confirm"}),
                Prepared(threw, r.envrc, tested, r.prompted \cup {"confirm"})}
          ELSE {Prepared([base EXCEPT !.phase = "files",
                                      !.files = unencryptedFiles, !.fidx = 1],
                         r.envrc, tested, r.prompted)}
          ), ok) : ok \in TestResults}
    : r \in Resolve(it.env)}

(***************************************************************************)
(* decrypt: executeDecrypt from "Get passphrase" up to its loop.           *)
(***************************************************************************)
\* a decrypt that goes on to its loop without any confirmation
DecryptConfirmUnasked(base, files, rc, ops, pr) ==
  {Prepared([base EXCEPT !.phase = "files", !.files = files, !.fidx = 1],
            rc, ops, pr)}

\* "Check for existing decrypted files" and the two confirmations
DecryptConfirm(base, files, rc, ops, pr) ==
  LET conflicts == \E k \in 1..Len(files) :
                      plain[files[k].dir][files[k].env] # None
      ready == [base EXCEPT !.phase = "files", !.files = files, !.fidx = 1]
      threw == [base EXCEPT !.phase = "threw"]
      returned == [base EXCEPT !.phase = "returned"]
  IN  IF conflicts /\ ~opts.overwrite
      THEN {Prepared(ready, rc, ops, pr \cup {"overwrite"}),
            Prepared(returned, rc, ops, pr \cup {"overwrite"}),
            Prepared(threw, rc, ops, pr \cup {"overwrite"})}
      ELSE IF ~opts.interactive /\ ~conflicts
      THEN {Prepared(ready, rc, ops, pr \cup {"confirm"}),
            Prepared(returned, rc, ops, pr \cup {"confirm"}),
            Prepared(threw, rc, ops, pr \cup {"confirm"})}
      ELSE {Prepared(ready, rc, ops, pr)}

DecryptPrepare(i) ==
  LET it == queue[i]
  IN UNION {
    LET base == [Idle EXCEPT !.item = i, !.env = it.env, !.dir = it.dir,
                             !.passphrase = r.passphrase,
                             !.source = r.source]
        threw == [base EXCEPT !.phase = "threw"]
        returned == [base EXCEPT !.phase = "returned"]
        tested == Invoke(gpgOps, "test")
        encryptedFiles == SelectSeq(findEnvFiles(it.env, it.dir), Encrypted)
        selecting == opts.interactive /\ Len(encryptedFiles) > 1
    IN  IF r.threw THEN {Prepared(threw, r.envrc, gpgOps, r.prompted)}
        ELSE IF ~ValidOptions(it.env, r.passphrase)
        THEN {Prepared(threw, r.envrc, gpgOps, r.prompted)}
        ELSE UNION {
          SelfTested((
          IF TestFailed(ok) THEN {Prepared(threw, r.envrc, tested, r.prompted)}
          ELSE IF encryptedFiles = <<>>
          THEN {Prepared(returned, r.envrc, tested, r.prompted)}
          ELSE IF selecting
          THEN UNION {DecryptConfirm(base, sel, r.envrc, tested,
                                     r.prompted \cup {"files"}) :
                        sel \in FileSelections(encryptedFiles)}
                 \cup {Prepared(threw, r.envrc, tested,
                                r.prompted \cup {"files"})}
          ELSE DecryptConfirm(base, encryptedFiles, r.envrc, tested,
                              r.prompted)
          ), ok) : ok \in TestResults}
    : r \in Resolve(it.env)}

(***************************************************************************)
(* Backups (FileUtils.createBackup, FileUtils.removeBackup) and the        *)
(* restore by ExecUtils.moveFile.                                          *)
(***************************************************************************)
DotEnvFile == "dotenv"

Backup(d, file, content) == [dir |-> d, file |-> file, content |-> content]

\* no backup at all
NeedsBackupNever(exists) == FALSE

\* "Create backup if file exists" (decrypt), "Create backup if target
\* exists" (copy from an encrypted source)
NeedsBackup(exists) == exists

\* a removal that leaves the backup file
removeBackupNot(bs, b) == bs

\* FileUtils.removeBackup deletes the backup file
removeBackup(bs, b) == bs \ b

\* createBackup copies the file to <path>.backup.<timestamp>
createBackup(bs, d, file, content) == bs \cup {Backup(d, file, content)}

\* a tool that removes the file it has read
InputRemoved(content, absent) == absent

\* `gpg -c "<file>"` and `gpg -o "<output>" -d "<file>"` read their input
\* file and leave it as it is
Input(content, absent) == content

\* the target after `gpg -o target -d source` with the given result
Decrypted(result, old, c) ==
  IF result = "ok" THEN c.pt
  ELSE IF result = "partial" THEN Partial
  ELSE old

\* ExecUtils.decryptFile: the results the tool can give
DecryptResults(c, key) ==
  IF Decrypts(c, key) THEN {"ok"} ELSE {"failed", "partial"}

\* the backup is not moved back
RestoredNot(b, written) == written

\* ExecUtils.moveFile(backupPath, target): the target gets the content of
\* the backup, which is gone afterwards
Restored(b, written) ==
  IF b = {} THEN written ELSE (CHOOSE x \in b : TRUE).content

(***************************************************************************)
(* copy: processSingleEnvironment up to "Decrypt to target" resp. the      *)
(* simple copy.                                                            *)
(***************************************************************************)
\* a choice that takes the encrypted file when there is one
SourceFileEncryptedFirst(sourceFiles) ==
  LET encrypted == SelectSeq(sourceFiles, Encrypted)
  IN  IF encrypted # <<>> THEN encrypted[1] ELSE sourceFiles[1]

\* "Determine source file (prefer unencrypted, then encrypted)"
SourceFile(sourceFiles) ==
  LET unencrypted == SelectSeq(sourceFiles, Unencrypted)
  IN  IF unencrypted # <<>> THEN unencrypted[1] ELSE sourceFiles[1]

\* copySchema with validateCopyOptions
ValidCopyOptions(e) == e # ""

CopyPrepare(i) ==
  LET it == queue[i]
      cwd == it.dir
      isPartOfAll == opts.all
      base == [Idle EXCEPT !.item = i, !.env = it.env, !.dir = it.dir]
      failed(c) == [c EXCEPT !.phase = "returned", !.errorCount = 1]
      sourceFiles == SelectSeq(findEnvFiles(it.env, cwd), Exists)
      sourceFile == SourceFile(sourceFiles)
      isEncrypted == sourceFile.encrypted
      targetExists == dotenv[cwd] # None
      asking == targetExists /\ ~opts.overwrite /\ ~isPartOfAll
      asked == IF asking THEN prompted \cup {"overwrite"} ELSE prompted
      ready(c) == [c EXCEPT !.phase = "files", !.files = <<sourceFile>>,
                            !.fidx = 1]
      decrypting ==
        UNION {
          IF GpgMissing(a)
          THEN {[Prepared([base EXCEPT !.phase =
                             IF isPartOfAll THEN "threw" ELSE "exited"],
                          envrc, Invoke(gpgOps, "version"), asked)
                   EXCEPT !.gpgAvailable = a]}
          ELSE UNION {
            LET c == [base EXCEPT !.passphrase = r.passphrase,
                                  !.source = r.source]
                threw == [c EXCEPT !.phase = "threw"]
                ops == Invoke(gpgOps, "version")
                tested == Invoke(ops, "test")
                kept == IF NeedsBackup(targetExists)
                        THEN {Backup(cwd, DotEnvFile, dotenv[cwd])} ELSE {}
            IN  IF r.threw
                THEN {[Prepared(threw, r.envrc, ops, r.prompted)
                         EXCEPT !.gpgAvailable = a]}
                ELSE IF ~ValidCopyOptions(it.env)
                THEN {[Prepared(threw, r.envrc, ops, r.prompted)
                         EXCEPT !.gpgAvailable = a]}
                ELSE UNION {
                  SelfTested((
                    IF TestFailed(ok)
                    THEN {[Prepared(threw, r.envrc, tested, r.prompted)
                             EXCEPT !.gpgAvailable = a]}
                    ELSE {[Prepared([ready(c) EXCEPT !.backup = kept],
                                    r.envrc, tested, r.prompted)
                             EXCEPT !.gpgAvailable = a,
                                    !.backups =
                                      IF NeedsBackup(targetExists)
                                      THEN createBackup(backups, cwd,
                                                        DotEnvFile, dotenv[cwd])
                                      ELSE backups,
                                    !.backedUp =
                                      IF NeedsBackup(targetExists)
                                      THEN @ \cup {<<cwd, DotEnvFile>>}
                                      ELSE @]}
                  ), ok) : ok \in TestResults}
            : r \in {[x EXCEPT !.prompted = @ \cup asked] :
                       x \in Resolve(it.env)}}
          : a \in GpgAnswers}
      proceeding ==
        IF isEncrypted THEN decrypting
        ELSE {Prepared(ready(base), envrc, gpgOps, asked)}
  IN  IF sourceFiles = <<>>
      THEN {Prepared(failed(base), envrc, gpgOps, prompted)}
      ELSE IF asking
      THEN proceeding
             \cup {Prepared(failed(base), envrc, gpgOps, asked),
                   Prepared([base EXCEPT !.phase = "threw"], envrc, gpgOps,
                            asked)}
      ELSE proceeding

(***************************************************************************)
(* The loop over the items (processAllEnvironments, processAllDirectories; *)
(* a run without --all has one item).                                      *)
(***************************************************************************)
\* the loop without the await
LoopMayAdvanceUnawaited == TRUE

\* `await processSingleEnvironment(...)`: the loop takes the next item only
\* when the call for the previous one has settled
LoopMayAdvance == active = {}

Begin(outcomes) ==
  /\ pc = "run"
  /\ idx <= Len(queue)
  /\ LoopMayAdvance
  /\ \E o \in outcomes :
       /\ cur' = o.cur
       /\ envrc' = o.envrc
       /\ gpgOps' = o.gpgOps
       /\ prompted' = o.prompted
       /\ gpgAvailable' = o.gpgAvailable
       /\ backups' = o.backups
       /\ backedUp' = o.backedUp
       /\ thrown' = IF o.cur.phase = "threw" THEN thrown \cup {idx} ELSE thrown
  /\ active' = active \cup {idx}
  /\ idx' = idx + 1
  /\ UNCHANGED <<opts, temps, plain, gpg, dotenv, pc, exitCode, listing,
                 environments, queue, results, totalSuccess, totalErrors,
                 discovered, salt, fs0>>

EncryptBegin == opts.cmd = "encrypt" /\ Begin(EncryptPrepare(idx))

InLoop ==
  /\ pc = "run"
  /\ active # {}
  /\ cur.phase = "files"
  /\ cur.fidx <= Len(cur.files)

\* FileUtils.filesAreIdentical
filesAreIdentical(a, b) == a = b

\* result of an external tool run that can fail for reasons of its own:
\* done, failed with its output file untouched, failed with the output file
\* half written
ToolResults == {"ok", "failed", "partial"}

\* the comparison never skips
SkipEncryptionNever(decryptSuccess, filesIdentical) == FALSE

\* "File already encrypted with same content - skipping"
SkipEncryption(decryptSuccess, filesIdentical) ==
  decryptSuccess /\ filesIdentical

\* a loop that takes the same file again
NextFileAgain(fidx) == fidx

\* `for (const envFile of filesToProcess)`: the next file, whatever the
\* result for this one
NextFile(fidx) == fidx + 1

\* `successCount++` at the end of an iteration
Succeeded(c) == [c EXCEPT !.successCount = @ + 1, !.fidx = NextFile(@)]

\* an iteration that does not count its failure
FailedUncounted(c) == [c EXCEPT !.fidx = NextFile(@)]

\* `errorCount++` at the end of an iteration
Failed(c) == [c EXCEPT !.errorCount = @ + 1, !.fidx = NextFile(@)]

\* "Compare with existing encrypted version": the temporary file after the
\* comparison.  gpg -d has written it, or a part of it, or nothing; it is
\* removed after a successful decryption ("Cleanup temp file") and in the
\* catch block, and not in the branch of a failed decryption
tempDecrypted(d, e, comparison) ==
  LET content == Decrypted(comparison, None, gpg[d][e])
  IN  IF comparison \in {"ok", "none"} \/ content = None THEN {}
      ELSE {[dir |-> d, env |-> e, content |-> content]}

\* one iteration of the loop of encrypt's processSingleEnvironment
EncryptFile ==
  /\ InLoop
  /\ opts.cmd = "encrypt"
  /\ LET envFile == cur.files[cur.fidx]
         d == envFile.dir
         e == envFile.env
         encryptedExists == gpg[d][e] # NoCipher
         comparisons ==
           IF encryptedExists THEN DecryptResults(gpg[d][e], cur.passphrase)
           ELSE {"none"}
         compared == IF encryptedExists THEN Invoke(gpgOps, "decrypt")
                     ELSE gpgOps
     IN  \E comparison \in comparisons :
           LET decrypted == comparison = "ok"
               identical ==
                 decrypted /\ filesAreIdentical(plain[d][e], gpg[d][e].pt)
           IN  /\ temps' = temps \cup tempDecrypted(d, e, comparison)
               /\ plain' = [plain EXCEPT ![d][e] = Input(@, None)]
               /\ IF SkipEncryption(decrypted, identical)
                  THEN /\ cur' = Succeeded(cur)
                       /\ gpgOps' = compared
                       /\ UNCHANGED <<gpg, salt>>
                  ELSE \E result \in ToolResults :
                       /\ gpgOps' = Invoke(compared, "encrypt")
                       /\ IF result = "ok"
                          THEN /\ gpg' = [gpg EXCEPT ![d][e] =
                                            Cipher(plain[d][e], cur.passphrase,
                                                   salt + 1)]
                               /\ salt' = salt + 1
                               /\ cur' = Succeeded(cur)
                          ELSE /\ gpg' = IF result = "partial"
                                         THEN [gpg EXCEPT ![d][e] =
                                                 PartialCipher]
                                         ELSE gpg
                               /\ salt' = salt
                               /\ cur' = Failed(cur)
  /\ UNCHANGED <<opts, dotenv, backups, envrc, gpgAvailable, pc, exitCode,
                 listing, environments, queue, idx, results, totalSuccess,
                 totalErrors, active, discovered, thrown, backedUp, prompted,
                 fs0>>

DecryptBegin == opts.cmd = "decrypt" /\ Begin(DecryptPrepare(idx))

CopyBegin == opts.cmd = "copy" /\ Begin(CopyPrepare(idx))

\* one iteration of the loop of executeDecrypt
DecryptFile ==
  /\ InLoop
  /\ opts.cmd = "decrypt"
  /\ LET envFile == cur.files[cur.fidx]
         d == envFile.dir
         e == envFile.env
         original == plain[d][e]
         backupPath == IF NeedsBackup(original # None)
                       THEN {Backup(d, e, original)} ELSE {}
         saved == IF NeedsBackup(original # None)
                  THEN createBackup(backups, d, e, original) ELSE backups
     IN  \E result \in DecryptResults(gpg[d][e], cur.passphrase) :
           LET written == Decrypted(result, original, gpg[d][e])
           IN  /\ gpgOps' = Invoke(gpgOps, "decrypt")
               /\ gpg' = [gpg EXCEPT ![d][e] = Input(@, NoCipher)]
               /\ backedUp' = IF NeedsBackup(original # None)
                              THEN backedUp \cup {<<d, e>>} ELSE backedUp
               /\ IF result = "ok"
                  THEN /\ plain' = [plain EXCEPT ![d][e] = written]
                       /\ backups' = removeBackup(saved, backupPath)
                       /\ cur' = Succeeded(cur)
                  ELSE /\ plain' = [plain EXCEPT ![d][e] =
                                      Restored(backupPath, written)]
                       /\ backups' = saved \ backupPath
                       /\ cur' = Failed(cur)
  /\ UNCHANGED <<opts, temps, dotenv, envrc, gpgAvailable, pc, exitCode,
                 listing, environments, queue, idx, results, totalSuccess,
                 totalErrors, active, discovered, thrown, prompted, salt,
                 fs0>>

\* copy: "Decrypt to target" with the restore of the backup, or the simple
\* copy of an unencrypted source
CopyTransfer ==
  /\ InLoop
  /\ opts.cmd = "copy"
  /\ LET sourceFile == cur.files[cur.fidx]
         d == sourceFile.dir
         e == sourceFile.env
         cwd == cur.dir
     IN  IF sourceFile.encrypted
         THEN \E result \in DecryptResults(gpg[d][e], cur.passphrase) :
                LET written == Decrypted(result, dotenv[cwd], gpg[d][e])
                IN  /\ gpgOps' = Invoke(gpgOps, "decrypt")
                    /\ IF result = "ok"
                       THEN /\ dotenv' = [dotenv EXCEPT ![cwd] = written]
                            /\ backups' = removeBackup(backups, cur.backup)
                            /\ cur' = [cur EXCEPT !.successCount = 1,
                                                  !.fidx = NextFile(@)]
                       ELSE /\ dotenv' = [dotenv EXCEPT ![cwd] =
                                            Restored(cur.backup, written)]
                            /\ backups' = backups \ cur.backup
                            /\ cur' = [cur EXCEPT
                                         !.errorCount = 1,
                                         !.phase = IF opts.all THEN "returned"
                                                   ELSE "exited"]
         ELSE /\ dotenv' = [dotenv EXCEPT ![cwd] = plain[d][e]]
              /\ cur' = [cur EXCEPT !.successCount = 1, !.fidx = NextFile(@)]
              /\ UNCHANGED <<backups, gpgOps>>
  /\ UNCHANGED <<opts, temps, plain, gpg, envrc, gpgAvailable, pc, exitCode,
                 listing, environments, queue, idx, results, totalSuccess,
                 totalErrors, active, discovered, thrown, backedUp, prompted,
                 salt, fs0>>

\* the call for the item in progress has returned, thrown or left the process
Settled ==
  /\ pc = "run"
  /\ active # {}
  /\ \/ cur.phase \in {"returned", "threw", "exited"}
     \/ cur.phase = "files" /\ cur.fidx > Len(cur.files)

\* exit status of a run without --all: a throw reaches the catch of the
\* command's action, which exits with 1; a return ends the process with 0
SingleExit ==
  IF cur.phase \in {"threw", "exited"} THEN 1
  ELSE IF cur.phase = "returned" THEN 0
  ELSE IF cur.errorCount > 0 THEN 1 ELSE 0

FinishSingle ==
  /\ Settled
  /\ ~opts.all
  /\ pc' = "done"
  /\ exitCode' = SingleExit
  /\ active' = active \ {cur.item}
  /\ UNCHANGED <<opts, temps, fsVars, envrc, gpgAvailable, listing, environments,
                 queue, idx, results, totalSuccess, totalErrors, cur,
                 discovered, gpgOps, thrown, backedUp, prompted, salt, fs0>>

\* a catch block that records nothing for the call that threw
ResultEntryErrorDropped ==
  [item |-> queue[cur.item], success |-> cur.successCount,
   errors |-> cur.errorCount]

\* the entry pushed to results: the counts the call returned, or one error
\* for a call that threw
ResultEntry ==
  IF cur.phase = "threw"
  THEN [item |-> queue[cur.item], success |-> 0, errors |-> 1]
  ELSE [item |-> queue[cur.item], success |-> cur.successCount,
        errors |-> cur.errorCount]

RecordResult ==
  /\ Settled
  /\ opts.all
  /\ results' = Append(results, ResultEntry)
  /\ totalSuccess' = totalSuccess + ResultEntry.success
  /\ totalErrors' = totalErrors + ResultEntry.errors
  /\ active' = active \ {cur.item}
  /\ UNCHANGED <<opts, temps, fsVars, envrc, gpgAvailable, pc, exitCode, listing,
                 environments, queue, idx, cur, discovered, gpgOps, thrown,
                 backedUp, prompted, salt, fs0>>

\* "Overall Summary" of processAllEnvironments:
\* `if (result.success > 0 || result.errors > 0)` the entry is printed
Shown(result) == result.success > 0 \/ result.errors > 0

\* the lines of the overall summary, one per printed entry
SummaryEntries == SelectSeq(results, Shown)

\* a summary that never exits with 1
BatchExitZero(errors) == 0

\* `if (totalErrors > 0) process.exit(1)`
BatchExit(errors) == IF errors > 0 THEN 1 ELSE 0

\* after the loop: "Overall Summary" and the exit
Summary ==
  /\ pc = "run"
  /\ opts.all
  /\ idx > Len(queue)
  /\ active = {}
  /\ pc' = "done"
  /\ exitCode' = BatchExit(totalErrors)
  /\ UNCHANGED <<opts, temps, fsVars, envrc, gpgAvailable, listing, environments,
                 queue, idx, results, totalSuccess, totalErrors, active, cur,
                 discovered, gpgOps, thrown, backedUp, prompted, salt, fs0>>

Next ==
  \/ executeEncrypt
  \/ executeDecrypt
  \/ executeCopy
  \/ EncryptBegin
  \/ DecryptBegin
  \/ CopyBegin
  \/ EncryptFile
  \/ DecryptFile
  \/ CopyTransfer
  \/ FinishSingle
  \/ RecordResult
  \/ Summary

Spec == Init /\ [][Next]_vars

(***************************************************************************)
(* Properties of the batch loop.                                           *)
(***************************************************************************)
EncryptAll == opts.cmd = "encrypt" /\ opts.all

Batch == opts.all /\ opts.cmd \in {"encrypt", "copy"} /\ queue # <<>>

ItemFailed(i) == i \in thrown \/ results[i].errors > 0

\* C1: in an encrypt --all run the queue is the discovered list, results has
\* one entry per processed environment in the order of that list, an
\* environment whose call threw is recorded with 0 successes and 1 error, and
\* when the command is done every environment of the list has its entry.
C1_ResultsFollowInput ==
  (EncryptAll /\ pc # "start" /\ queue # <<>>) =>
    /\ Len(queue) = Len(environments)
    /\ \A i \in 1..Len(queue) : queue[i].env = environments[i]
    /\ Len(results) <= Len(queue)
    /\ \A i \in 1..Len(results) :
         /\ results[i].item = queue[i]
         /\ i \in thrown => results[i].success = 0 /\ results[i].errors = 1
    /\ pc = "done" => Len(results) = Len(queue)

\* an environment that threw is followed by one that encrypted its file
C1_Witness ==
  /\ EncryptAll
  /\ pc = "done"
  /\ Len(results) = 2
  /\ 1 \in thrown
  /\ results[1].errors = 1
  /\ 2 \notin thrown
  /\ results[2].success = 1
  /\ gpgOps["encrypt"] = 1

\* C4: a batch command that is done has processed every item, and its exit
\* status is 1 exactly when some item failed (a file failed or the call for
\* the item threw), 0 otherwise; no exit status is set while items remain.
C4_BatchExitStatus ==
  Batch =>
    /\ pc = "done" =>
         /\ Len(results) = Len(queue)
         /\ exitCode = IF \E i \in 1..Len(results) : ItemFailed(i)
                       THEN 1 ELSE 0
    /\ Len(results) < Len(queue) => exitCode = Running

\* copy --all: the first directory failed at its file, the second was copied,
\* and the command exited with 1 after both
C4_Witness ==
  /\ opts.cmd = "copy"
  /\ opts.all
  /\ pc = "done"
  /\ Len(results) = 2
  /\ 1 \notin thrown
  /\ results[1].errors = 1
  /\ results[2].success = 1
  /\ exitCode = 1

\* C9 (as claimed): in a batch run an environment with no file to act on,
\* whose call did not throw, is recorded as one failed item.
C9_NoFileIsFailure ==
  (opts.all /\ opts.cmd = "encrypt") =>
    \A i \in 1..Len(results) :
      (/\ i \notin thrown
       /\ \A d \in Dirs : fs0.plain[d][queue[i].env] = None)
        => results[i].errors = 1

\* C10: at most one item of a batch is in processing, and the item in
\* processing is the one right after the recorded results.
C10_Sequential ==
  opts.all =>
    /\ Cardinality(active) <= 1
    /\ \A i \in active : Len(results) = i - 1 /\ cur.item = i

\* the second item is in processing with the result of the first recorded
C10_Witness ==
  /\ opts.all
  /\ active = {2}
  /\ Len(results) = 1
  /\ cur.phase = "files"

\* C13 (as claimed): decrypt --all, with gpg at hand, ends with one result
\* per discovered environment, in the order of discovery, and with status 1
\* exactly when one of them failed.
C13_DecryptAllIsBatch ==
  (/\ opts.cmd = "decrypt"
   /\ opts.all
   /\ opts.environment = ""
   /\ ~opts.interactive
   /\ findAllEnvironments(listing) # <<>>
   /\ pc = "done")
    => \/ gpgAvailable = "no"
       \/ /\ Len(results) = Len(findAllEnvironments(listing))
          /\ \A i \in 1..Len(results) :
               results[i].item.env = findAllEnvironments(listing)[i]
          /\ exitCode = IF \E i \in 1..Len(results) : ItemFailed(i)
                        THEN 1 ELSE 0

\* C14 (as claimed): the overall summary of an encrypt --all run has one
\* entry for every environment of the input list, in its order.
C14_SummaryEntryPerEnvironment ==
  (EncryptAll /\ pc = "done" /\ queue # <<>>) =>
    /\ Len(SummaryEntries) = Len(queue)
    /\ \A i \in 1..Len(SummaryEntries) : SummaryEntries[i].item = queue[i]

(***************************************************************************)
(* Properties of the validation and the passphrase.                        *)
(***************************************************************************)
\* the priority of the passphrase sources, written from the options and the
\* keys of .envrc
ExpectedSource(e) ==
  IF opts.passphrase # "" THEN "provided"
  ELSE IF opts.secret # "" /\ opts.secret \in envrc.keys THEN "custom"
  ELSE IF generateSecretVariableName(e) \in envrc.keys THEN "convention"
  ELSE "prompt"

\* C2 (as claimed): in every command the passphrase comes from the highest
\* tier that applies: --passphrase, the --secret key of .envrc, the
\* <ENV>_SECRET key of .envrc, the prompt.
C2_PassphrasePriority ==
  cur.source # None =>
    /\ cur.source = ExpectedSource(cur.env)
    /\ cur.source = "provided" => cur.passphrase = opts.passphrase
    /\ cur.source = "custom" => cur.passphrase = EnvrcValue(opts.secret)
    /\ cur.source = "convention" =>
         cur.passphrase = EnvrcValue(generateSecretVariableName(cur.env))
    /\ cur.source = "prompt" => "passphrase" \in prompted

\* C15 (as claimed): a non-empty --passphrase is the passphrase of the run,
\* with .envrc not read and no passphrase prompt shown.
C15_ExplicitPassphraseExact ==
  (opts.passphrase # "" /\ cur.source # None) =>
    /\ cur.passphrase = opts.passphrase
    /\ cur.source = "provided"
    /\ ~envrc.read
    /\ "passphrase" \notin prompted

\* C16 (as claimed): whatever the case of the --environment given, a run
\* without --all in a directory that holds files of the lowercase name
\* processes the environment of that name, and the convention secret
\* variable of a name is the one of its lowercase form.
C16_CaseNormalized ==
  /\ (/\ opts.environment # ""
      /\ ~opts.all
      /\ Includes(findAllEnvironments(listing), toLowerCase(opts.environment))
      /\ gpgAvailable # "no"
      /\ pc # "start")
       => /\ Len(queue) = 1
          /\ toLowerCase(queue[1].env) = toLowerCase(opts.environment)
  /\ cur.env # None =>
       generateSecretVariableName(cur.env)
         = generateSecretVariableName(toLowerCase(cur.env))

Rejected ==
  /\ pc = "done"
  /\ exitCode = 1
  /\ gpgOps = NoGpg
  /\ ~discovered
  /\ prompted = {}
  /\ Tree = fs0

\* C3 (as claimed): in every command --all with --environment or with
\* --interactive ends the command with status 1 before any GPG invocation,
\* discovery, prompt or file change.
C3_AllFlagRejected ==
  (opts.all /\ (opts.environment # "" \/ opts.interactive) /\ pc # "start")
    => Rejected

\* C3 (amended): encrypt --all with --environment or with --interactive ends
\* the command with status 1 before any GPG invocation, discovery, prompt or
\* file change.
C3_EncryptAllFlagRejected ==
  (/\ opts.cmd = "encrypt"
   /\ opts.all
   /\ (opts.environment # "" \/ opts.interactive)
   /\ pc # "start")
    => Rejected

\* encrypt --all --interactive over a directory with files, rejected
C3_Witness ==
  /\ opts.cmd = "encrypt"
  /\ opts.all
  /\ opts.interactive
  /\ opts.environment = ""
  /\ listing # <<>>
  /\ Rejected

\* gpg --version was the only GPG invocation
OnlyVersionChecked == gpgOps = Invoke(NoGpg, "version")

\* C11 (as claimed): once gpg is found missing, no file has been created,
\* modified or removed, and a command that is done has exited with 1.
C11_GpgMissingNoChange ==
  gpgAvailable = "no" =>
    /\ Tree = fs0
    /\ pc = "done" => exitCode = 1

\* C11 (amended): encrypt and decrypt check gpg first and exit with 1 with no
\* file changed and nothing else done; copy checks gpg only for an encrypted
\* source: a copy without --all then exits with 1 with no file changed, and a
\* copy --all fails the directory and exits with 1 after its loop.
C11_GpgMissingFatal ==
  gpgAvailable = "no" =>
    /\ opts.cmd \in {"encrypt", "decrypt"} =>
         /\ pc = "done"
         /\ exitCode = 1
         /\ Tree = fs0
         /\ queue = <<>>
         /\ OnlyVersionChecked
    /\ (opts.cmd = "copy" /\ ~opts.all) =>
         /\ Tree = fs0
         /\ cur.phase = "exited"
         /\ OnlyVersionChecked
         /\ pc = "done" => exitCode = 1
    /\ (opts.cmd = "copy" /\ opts.all) =>
         /\ thrown # {}
         /\ gpgOps["test"] = 0 /\ gpgOps["decrypt"] = 0
         /\ pc = "done" => exitCode = 1

\* decrypt in a directory with environment files and no gpg
C11_Witness ==
  /\ opts.cmd = "decrypt"
  /\ gpgAvailable = "no"
  /\ listing # <<>>
  /\ pc = "done"
  /\ exitCode = 1
  /\ Tree = fs0

\* the --environment given names no environment of the working directory
EnvironmentNotFound ==
  /\ opts.environment # ""
  /\ ~Includes(findAllEnvironments(listing), opts.environment)

CopyAll == opts.cmd = "copy" /\ opts.all

NothingProcessed ==
  /\ Tree = fs0
  /\ queue = <<>>
  /\ cur = Idle
  /\ gpgOps["test"] = 0
  /\ gpgOps["encrypt"] = 0
  /\ gpgOps["decrypt"] = 0

AtFile == cur.files[cur.fidx]

\* C5: an iteration of encrypt on a file whose .gpg file exists and decrypts
\* under the passphrase of the run to the content of the plaintext leaves
\* every .gpg file as it is, makes no encrypt invocation and counts one
\* success.
C5_EncryptSkipsIdentical ==
  [][(/\ InLoop
      /\ opts.cmd = "encrypt"
      /\ Decrypts(gpg[AtFile.dir][AtFile.env], cur.passphrase)
      /\ gpg[AtFile.dir][AtFile.env].pt = plain[AtFile.dir][AtFile.env])
       => /\ gpg' = gpg
          /\ gpgOps'["encrypt"] = gpgOps["encrypt"]
          /\ cur'.successCount = cur.successCount + 1
          /\ cur'.errorCount = cur.errorCount]_vars

\* an encrypt run that compared and skipped its only file
C5_Witness ==
  /\ opts.cmd = "encrypt"
  /\ pc = "done"
  /\ exitCode = 0
  /\ Len(cur.files) = 1
  /\ cur.successCount = 1
  /\ gpgOps["decrypt"] = 1
  /\ gpgOps["encrypt"] = 0
  /\ gpg = fs0.gpg
  /\ gpg[cur.files[1].dir][cur.files[1].env] = InitialCipher

\* C6: an iteration of decrypt whose target exists and whose decryption
\* fails leaves the target with the content it had and counts one error.
C6_FailedDecryptKeepsTarget ==
  [][(/\ InLoop
      /\ opts.cmd = "decrypt"
      /\ plain[AtFile.dir][AtFile.env] # None
      /\ ~Decrypts(gpg[AtFile.dir][AtFile.env], cur.passphrase))
       => /\ plain' = plain
          /\ <<AtFile.dir, AtFile.env>> \in backedUp'
          /\ backups' = backups
          /\ cur'.errorCount = cur.errorCount + 1
          /\ cur'.successCount = cur.successCount]_vars

\* a decrypt run with a wrong passphrase over an existing target
C6_Witness ==
  /\ opts.cmd = "decrypt"
  /\ pc = "done"
  /\ exitCode = 1
  /\ Len(cur.files) = 1
  /\ cur.errorCount = 1
  /\ gpgOps["decrypt"] = 1
  /\ <<cur.files[1].dir, cur.files[1].env>> \in backedUp
  /\ fs0.plain[cur.files[1].dir][cur.files[1].env] # None
  /\ plain = fs0.plain
  /\ backups = {}

\* the existing files a step replaces: [dir, file] with file the environment
\* for .env.<e>, <<e, "gpg">> for .env.<e>.gpg, DotEnvFile for .env
Overwritten(d, e) ==
  (IF plain[d][e] # None /\ plain'[d][e] # plain[d][e]
   THEN {<<d, e>>} ELSE {})
    \cup (IF gpg[d][e] # NoCipher /\ gpg'[d][e] # gpg[d][e]
          THEN {<<d, <<e, "gpg">>>>} ELSE {})
    \cup (IF dotenv[d] # None /\ dotenv'[d] # dotenv[d]
          THEN {<<d, DotEnvFile>>} ELSE {})

Searched(cwd) == {Under(cwd)[i] : i \in 1..Len(Under(cwd))}

\* a step that enters processSingleEnvironment of copy and reaches its
\* transfer
CopyChosen == opts.cmd = "copy" /\ idx' = idx + 1 /\ cur'.phase = "files"

DecryptConflict ==
  \E k \in 1..Len(cur.files) :
    fs0.plain[cur.files[k].dir][cur.files[k].env] # None

\* an existing plaintext file has another content than at the start
PlaintextReplaced ==
  \E d \in Dirs, e \in Envs :
    fs0.plain[d][e] # None /\ plain[d][e] # fs0.plain[d][e]

\* C18: decrypt enters its loop over files that exist in plaintext only with
\* --overwrite or after the overwrite confirmation; with --overwrite that
\* confirmation is never shown; a decrypt that returned before its loop
\* (the user declined, or there was nothing to decrypt) has changed no file
\* and run no decryption; and no existing plaintext is replaced otherwise.
C18_DecryptOverwritePermission ==
  opts.cmd = "decrypt" =>
    /\ (cur.phase = "files" /\ DecryptConflict) =>
         opts.overwrite \/ "overwrite" \in prompted
    /\ opts.overwrite => "overwrite" \notin prompted
    /\ cur.phase \in {"returned", "threw"} =>
         Tree = fs0 /\ gpgOps["decrypt"] = 0
    /\ PlaintextReplaced =>
         /\ cur.phase = "files"
         /\ opts.overwrite \/ "overwrite" \in prompted

\* the user declined the overwrite confirmation: the command is done with
\* every file as it was
C18_Witness ==
  /\ opts.cmd = "decrypt"
  /\ ~opts.overwrite
  /\ "overwrite" \in prompted
  /\ cur.phase = "returned"
  /\ pc = "done"
  /\ exitCode = 0
  /\ Tree = fs0
  /\ \E d \in Dirs :
       /\ fs0.plain[d][cur.env] # None
       /\ fs0.gpg[d][cur.env] # NoCipher

(***************************************************************************)
(* envx list: executeList up to the table, on any directory listing.       *)
(***************************************************************************)
FileNames ==
  {PlainName("development"), GpgName("development"), GpgName("production"),
   PlainName("staging"), PlainName("example"), GpgName("template"),
   DotEnvName, <<"other", "file">>, <<"", "env", "test", "backup">>,
   <<"", "env", "">>, <<"env", "test">>, <<"", "envrc">>}

Listings == UNION {[1..n -> FileNames] : n \in 0..MaxListLen}

ListOptions ==
  [cmd |-> "list", all |-> FALSE, interactive |-> FALSE, overwrite |-> FALSE,
   environment |-> "", passphrase |-> "", secret |-> ""]

NoFiles ==
  [plain |-> [d \in Dirs |-> [e \in Envs |-> None]],
   gpg |-> [d \in Dirs |-> [e \in Envs |-> NoCipher]],
   dotenv |-> [d \in Dirs |-> None],
   backups |-> {}]

DiscoveryInit ==
  /\ opts = ListOptions
  /\ listing \in Listings
  /\ plain = NoFiles.plain
  /\ gpg = NoFiles.gpg
  /\ dotenv = NoFiles.dotenv
  /\ backups = {}
  /\ envrc = [read |-> FALSE, keys |-> {}]
  /\ gpgAvailable = "unknown"
  /\ pc = "start"
  /\ exitCode = Running
  /\ environments = <<>>
  /\ queue = <<>>
  /\ idx = 1
  /\ results = <<>>
  /\ totalSuccess = 0
  /\ totalErrors = 0
  /\ active = {}
  /\ cur = Idle
  /\ discovered = FALSE
  /\ gpgOps = NoGpg
  /\ thrown = {}
  /\ backedUp = {}
  /\ prompted = {}
  /\ salt = 0
  /\ fs0 = NoFiles
  /\ temps = {}

executeList ==
  /\ pc = "start"
  /\ opts.cmd = "list"
  /\ environments' = findAllEnvironments(listing)
  /\ discovered' = TRUE
  /\ pc' = "done"
  /\ exitCode' = 0
  /\ UNCHANGED <<opts, temps, fsVars, envrc, gpgAvailable, listing, queue, idx,
                 results, totalSuccess, totalErrors, active, cur, gpgOps,
                 thrown, backedUp, prompted, salt, fs0>>

DiscoveryNext == executeList

SpecDiscovery == DiscoveryInit /\ [][DiscoveryNext]_vars

(***************************************************************************)
(* envx interactive: executeInteractive with InteractiveUtils.setupEnvrc.  *)
(* The .envrc file is the name in the listing with the keys it defines.    *)
(***************************************************************************)
EnvrcName == <<"", "envrc">>

InteractiveOptions ==
  {[cmd |-> "interactive", all |-> FALSE, interactive |-> FALSE,
    overwrite |-> o, environment |-> "", passphrase |-> "", secret |-> ""] :
     o \in BOOLEAN}

\* FileUtils.fileExists(envrcPath)
envrcExists == Includes(listing, EnvrcName)

InteractiveInit ==
  /\ opts \in InteractiveOptions
  /\ \E S \in FileSets, c \in [Dirs -> Contents], exists \in BOOLEAN :
       /\ plain = PlainOf(S, c)
       /\ gpg = GpgOf(S)
       /\ dotenv = DotEnvOf(S)
       /\ listing = RootListing(plain, gpg, dotenv)
                      \o (IF exists THEN <<EnvrcName>> ELSE <<>>)
       /\ \E keys \in (IF exists THEN SUBSET EnvrcKeys ELSE {{}}) :
            envrc = [read |-> FALSE, keys |-> keys]
  /\ backups = {}
  /\ gpgAvailable = "unknown"
  /\ pc = "start"
  /\ exitCode = Running
  /\ environments = <<>>
  /\ queue = <<>>
  /\ idx = 1
  /\ results = <<>>
  /\ totalSuccess = 0
  /\ totalErrors = 0
  /\ active = {}
  /\ cur = Idle
  /\ discovered = FALSE
  /\ gpgOps = NoGpg
  /\ thrown = {}
  /\ backedUp = {}
  /\ prompted = {}
  /\ salt = 0
  /\ fs0 = Tree
  /\ temps = {}

\* executeInteractive up to the call of setupEnvrc: "Check if .envrc already
\* exists", with the two questions asked when --overwrite is not given
executeInteractive ==
  /\ pc = "start"
  /\ opts.cmd = "interactive"
  /\ environments' = findAllEnvironments(listing)
  /\ discovered' = TRUE
  /\ IF envrcExists /\ ~opts.overwrite
     THEN \E showCurrent \in BOOLEAN, overwrite \in BOOLEAN :
            /\ prompted' = prompted \cup {"show", "overwrite"}
            /\ envrc' = [envrc EXCEPT !.read = showCurrent \/ ~overwrite]
            /\ pc' = IF overwrite THEN "setup" ELSE "done"
            /\ exitCode' = IF overwrite THEN Running ELSE 0
     ELSE /\ pc' = "setup"
          /\ UNCHANGED <<prompted, envrc, exitCode>>
  /\ UNCHANGED <<opts, temps, fsVars, gpgAvailable, listing, queue, idx, results,
                 totalSuccess, totalErrors, active, cur, gpgOps, thrown,
                 backedUp, salt, fs0>>

\* FileUtils.writeEnvrc: the file has the keys of the configuration
writeEnvrc(config) ==
  /\ envrc' = [read |-> TRUE, keys |-> config]
  /\ listing' = IF envrcExists THEN listing ELSE Append(listing, EnvrcName)

\* InteractiveUtils.setupEnvrc and the rest of executeInteractive: setupEnvrc
\* asks for the overwrite of an existing .envrc itself; the configuration it
\* returns is written
setupEnvrc ==
  /\ pc = "setup"
  /\ opts.cmd = "interactive"
  /\ pc' = "done"
  /\ \/ /\ envrcExists
        /\ prompted' = prompted \cup {"overwrite"}
        /\ writeEnvrc(envrc.keys)
        /\ exitCode' = 0
     \/ \E chosen \in SUBSET Envs, confirmCreate \in BOOLEAN :
          /\ prompted' =
               prompted
                 \cup (IF envrcExists THEN {"overwrite"} ELSE {})
                 \cup {"environments"}
                 \cup (IF chosen # {} THEN {"secret", "create"} ELSE {})
          /\ IF chosen = {}
             THEN exitCode' = 1 /\ UNCHANGED <<envrc, listing>>
             ELSE IF ~confirmCreate
             THEN exitCode' = 0 /\ UNCHANGED <<envrc, listing>>
             ELSE /\ writeEnvrc({generateSecretVariableName(e) : e \in chosen})
                  /\ exitCode' = 0
  /\ UNCHANGED <<opts, temps, fsVars, gpgAvailable, environments, queue, idx,
                 results, totalSuccess, totalErrors, active, cur, discovered,
                 gpgOps, thrown, backedUp, salt, fs0>>

InteractiveNext == executeInteractive \/ setupEnvrc

SpecInteractive == InteractiveInit /\ [][InteractiveNext]_vars

\* C19 (as claimed): a run of interactive with --overwrite shows no
\* overwrite confirmation.
C19_OverwriteWithoutConfirmation ==
  (opts.cmd = "interactive" /\ opts.overwrite) => "overwrite" \notin prompted

(***************************************************************************)
(* envx create: executeCreate and executeInteractiveCreate in the working  *)
(* directory "root".  cur holds the environment whose file is about to be  *)
(* written and how the write was allowed.                                  *)
(***************************************************************************)
InvalidName == "bad name"

TemplateContent == "T"

\* letters, numbers, hyphens and underscores
isValidEnvironmentName(e) == e # InvalidName

CreateOptions ==
  {[cmd |-> "create", all |-> FALSE, interactive |-> i, overwrite |-> o,
    environment |-> e, passphrase |-> "", secret |-> "", template |-> t] :
     i \in BOOLEAN, o \in BOOLEAN, t \in BOOLEAN,
     e \in {"", InvalidName} \cup Envs}

CreateInit ==
  /\ opts \in CreateOptions
  /\ \E S \in FileSets, c \in [Dirs -> Contents] :
       /\ plain = PlainOf(S, c)
       /\ gpg = GpgOf(S)
       /\ dotenv = DotEnvOf(S)
       /\ listing = RootListing(plain, gpg, dotenv)
  /\ backups = {}
  /\ envrc = [read |-> FALSE, keys |-> {}]
  /\ gpgAvailable = "unknown"
  /\ pc = "start"
  /\ exitCode = Running
  /\ environments = <<>>
  /\ queue = <<>>
  /\ idx = 1
  /\ results = <<>>
  /\ totalSuccess = 0
  /\ totalErrors = 0
  /\ active = {}
  /\ cur = Idle
  /\ discovered = FALSE
  /\ gpgOps = NoGpg
  /\ thrown = {}
  /\ backedUp = {}
  /\ prompted = {}
  /\ salt = 0
  /\ fs0 = Tree
  /\ temps = {}

\* the locals of a creation that goes on to createEnvTemplate
Creating(e, confirm) ==
  [Idle EXCEPT !.env = e, !.dir = "root",
               !.phase = IF confirm THEN "confirmed" ELSE "create"]

fileConflictIgnored(exists, overwrite) == FALSE

\* (await FileUtils.fileExists(envFilePath)) && !overwrite
fileConflict(exists, overwrite) == exists /\ ~overwrite

\* executeCreate for a single environment, up to createEnvTemplate
executeCreate ==
  /\ pc = "start"
  /\ opts.cmd = "create"
  /\ ~opts.interactive
  /\ environments' = findAllEnvironments(listing)
  /\ discovered' = TRUE
  /\ \E name \in Envs, additional \in BOOLEAN, confirm \in BOOLEAN,
        templateExists \in BOOLEAN :
       LET environment ==
             IF opts.environment = "" THEN name ELSE opts.environment
           asked == IF opts.environment = "" THEN {"environment"} ELSE {}
       IN  IF ~isValidEnvironmentName(environment)
           THEN /\ pc' = "done"
                /\ exitCode' = 1
                /\ cur' = [Idle EXCEPT !.phase = "threw"]
                /\ prompted' = prompted \cup asked
           ELSE
             LET existing ==
                   /\ Includes(environments', environment)
                   /\ SelectSeq(findEnvFiles(environment, "root"), Exists)
                        # <<>>
                 conflict ==
                   fileConflict(plain["root"][environment] # None,
                                opts.overwrite)
             IN  IF existing /\ ~opts.overwrite /\ ~additional
                 THEN /\ pc' = "done"
                      /\ exitCode' = 0
                      /\ cur' = [Idle EXCEPT !.env = environment,
                                             !.phase = "returned"]
                      /\ prompted' = prompted \cup asked \cup {"additional"}
                 ELSE
                   LET asked2 ==
                         asked \cup (IF existing /\ ~opts.overwrite
                                     THEN {"additional"} ELSE {})
                   IN  IF opts.template /\ ~templateExists
                       THEN /\ pc' = "done"
                            /\ exitCode' = 1
                            /\ cur' = [Idle EXCEPT !.env = environment,
                                                   !.phase = "threw"]
                            /\ prompted' = prompted \cup asked2
                       ELSE IF conflict /\ ~confirm
                       THEN /\ pc' = "done"
                            /\ exitCode' = 0
                            /\ cur' = [Idle EXCEPT !.env = environment,
                                                   !.phase = "returned"]
                            /\ prompted' =
                                 prompted \cup asked2 \cup {"overwrite"}
                       ELSE /\ pc' = "write"
                            /\ exitCode' = Running
                            /\ cur' = Creating(environment, conflict)
                            /\ prompted' =
                                 prompted \cup asked2
                                   \cup (IF conflict THEN {"overwrite"}
                                         ELSE {})
  /\ UNCHANGED <<opts, temps, fsVars, envrc, gpgAvailable, listing, queue, idx,
                 results, totalSuccess, totalErrors, active, gpgOps, thrown,
                 backedUp, salt, fs0>>

RECURSIVE Copies(_, _)
Copies(e, n) ==
  IF n = 0 THEN <<>>
  ELSE <<[env |-> e, dir |-> "root"]>> \o Copies(e, n - 1)

\* environmentsToCreate.sort() with count[e] entries of environment e
RECURSIVE SortedList(_, _)
SortedList(count, i) ==
  IF i > NumEnvs THEN <<>>
  ELSE Copies(EnvOrder[i], count[EnvOrder[i]]) \o SortedList(count, i + 1)

\* executeInteractiveCreate up to its loop: the list is made of suggested
\* environments and of names typed in; a name is listed a second time only
\* for an existing environment, after "create files ... anyway?"
executeInteractiveCreate ==
  /\ pc = "start"
  /\ opts.cmd = "create"
  /\ opts.interactive
  /\ environments' = findAllEnvironments(listing)
  /\ discovered' = TRUE
  /\ cur' = Idle
  /\ \E count \in [Envs -> 0..MaxListLen], confirm \in BOOLEAN :
       LET environmentsToCreate == SortedList(count, 1)
           anyway ==
             \E e \in Envs : count[e] > 0 /\ Includes(environments', e)
       IN  /\ Len(environmentsToCreate) <= MaxListLen
           /\ \A e \in Envs :
                count[e] > 1 => Includes(environments', e)
           /\ prompted' =
                prompted \cup {"select"}
                  \cup (IF anyway THEN {"anyway"} ELSE {})
                  \cup (IF environmentsToCreate # <<>> THEN {"create"}
                        ELSE {})
           /\ IF environmentsToCreate = <<>> \/ ~confirm
              THEN pc' = "done" /\ exitCode' = 0 /\ queue' = <<>>
              ELSE /\ pc' = "run"
                   /\ exitCode' = Running
                   /\ queue' = environmentsToCreate
  /\ UNCHANGED <<opts, temps, fsVars, envrc, gpgAvailable, listing, idx, results,
                 totalSuccess, totalErrors, active, gpgOps, thrown, backedUp,
                 salt, fs0>>

\* the loop of executeInteractiveCreate up to createEnvTemplate: "Check if
\* file exists"
confirmFile ==
  /\ pc = "run"
  /\ opts.cmd = "create"
  /\ idx <= Len(queue)
  /\ LET environment == queue[idx].env
         conflict ==
           fileConflict(plain["root"][environment] # None, opts.overwrite)
     IN  IF conflict
         THEN /\ prompted' = prompted \cup {"overwrite"}
              /\ \E fileConfirm \in BOOLEAN :
                   IF fileConfirm
                   THEN /\ pc' = "write"
                        /\ cur' = Creating(environment, TRUE)
                        /\ idx' = idx
                   ELSE /\ pc' = "run"
                        /\ cur' = [Idle EXCEPT !.env = environment,
                                               !.phase = "skipped"]
                        /\ idx' = idx + 1
         ELSE /\ pc' = "write"
              /\ cur' = Creating(environment, FALSE)
              /\ UNCHANGED <<prompted, idx>>
  /\ UNCHANGED <<opts, temps, fsVars, envrc, gpgAvailable, exitCode, listing,
                 environments, queue, results, totalSuccess, totalErrors,
                 active, discovered, gpgOps, thrown, backedUp, salt, fs0>>

\* FileUtils.createEnvTemplate(envFilePath, template): the file is written,
\* or the write fails and leaves the file as it was or half written
EnvTemplate(old) == {TemplateContent, Partial, old}

\* the call of createEnvTemplate and what its caller does with the result
createEnvTemplate ==
  /\ pc = "write"
  /\ opts.cmd = "create"
  /\ \E content \in EnvTemplate(plain["root"][cur.env]) :
       LET success == content = TemplateContent
       IN  /\ plain' = [plain EXCEPT !["root"][cur.env] = content]
           /\ listing' =
                IF content = None \/ Includes(listing, PlainName(cur.env))
                THEN listing
                ELSE Append(listing, PlainName(cur.env))
           /\ IF opts.interactive
              THEN /\ pc' = "run"
                   /\ idx' = idx + 1
                   /\ exitCode' = exitCode
                   /\ totalSuccess' = totalSuccess + (IF success THEN 1 ELSE 0)
                   /\ totalErrors' = totalErrors + (IF success THEN 0 ELSE 1)
              ELSE /\ pc' = "done"
                   /\ exitCode' = 0
                   /\ UNCHANGED <<idx, totalSuccess, totalErrors>>
  /\ UNCHANGED <<opts, temps, gpg, dotenv, backups, envrc, gpgAvailable,
                 environments, queue, results, active, cur, discovered,
                 gpgOps, thrown, backedUp, prompted, salt, fs0>>

\* "Creation Results": exit 1 when a file could not be created
createResults ==
  /\ pc = "run"
  /\ opts.cmd = "create"
  /\ idx > Len(queue)
  /\ pc' = "done"
  /\ exitCode' = IF totalErrors > 0 THEN 1 ELSE 0
  /\ UNCHANGED <<opts, temps, fsVars, envrc, gpgAvailable, listing, environments,
                 queue, idx, results, totalSuccess, totalErrors, active, cur,
                 discovered, gpgOps, thrown, backedUp, prompted, salt, fs0>>

CreateNext ==
  \/ executeCreate
  \/ executeInteractiveCreate
  \/ confirmFile
  \/ createEnvTemplate
  \/ createResults

SpecCreate == CreateInit /\ [][CreateNext]_vars

(***************************************************************************)
(* Properties of the discovery.                                            *)
(***************************************************************************)
Listed(name) == \E i \in 1..Len(listing) : listing[i] = name

Returned(t) == \E i \in 1..Len(environments) : environments[i] = t

\* the tokens a name may carry: every token of the model but the separator
Tokens == {TokenOrder[i] : i \in 2..Len(TokenOrder)}

\* C8: discovery returns a token exactly when the listing holds .env.<token>
\* or .env.<token>.gpg and the token is neither example nor template; it
\* returns each token once, and in ascending order.
C8_DiscoveryExact ==
  discovered =>
    /\ \A t \in Tokens :
         Returned(t) <=>
           /\ Listed(PlainName(t)) \/ Listed(GpgName(t))
           /\ t \notin {"example", "template"}
    /\ \A i \in 1..Len(environments) : environments[i] \in Tokens
    /\ \A i, j \in 1..Len(environments) :
         i < j => Rank(environments[i]) < Rank(environments[j])

\* .env.staging listed before both variants of development: two names, each
\* once, sorted
C8_Witness ==
  /\ discovered
  /\ listing = <<PlainName("staging"), GpgName("development"),
                 PlainName("development")>>
  /\ environments = <<"development", "staging">>

(***************************************************************************)
(* Properties of create.                                                   *)
(***************************************************************************)
\* C20: create changes an existing .env.<env> only with --overwrite or after
\* the user confirmed the overwrite of that file: every step that changes
\* the content of a file that existed is the write of a creation that
\* --overwrite or the confirmation allowed, and a create that ended on a
\* declined confirmation has left every file as it was.
C20_CreateKeepsExisting ==
  [][opts.cmd = "create" =>
       /\ \A e \in Envs :
            (plain["root"][e] # None /\ plain'["root"][e] # plain["root"][e])
              => /\ cur.env = e
                 /\ opts.overwrite \/ cur.phase = "confirmed"
       /\ \A d \in Dirs, e \in Envs :
            d # "root" => plain'[d][e] = plain[d][e]
       /\ (pc' = "done" /\ cur'.phase = "returned") => Tree' = fs0]_vars

\* the user declined the overwrite of an existing file, in either mode, and
\* the command is done with the file as it was
C20_Witness ==
  /\ opts.cmd = "create"
  /\ ~opts.overwrite
  /\ pc = "done"
  /\ "overwrite" \in prompted
  /\ cur.phase \in {"returned", "skipped"}
  /\ fs0.plain["root"][cur.env] # None
  /\ plain["root"][cur.env] = fs0.plain["root"][cur.env]

(***************************************************************************)
(* Properties of the per-file operation.                                   *)
(***************************************************************************)
\* a step that runs gpg -c or gpg -d on a file of the user
ToolInvoked ==
  \/ gpgOps'["encrypt"] # gpgOps["encrypt"]
  \/ gpgOps'["decrypt"] # gpgOps["decrypt"]

\* the files of the environment in progress, and the .env of its directory,
\* are what they were when the command started
UntouchedIn(c) ==
  /\ \A d \in Dirs :
       /\ plain'[d][toLowerCase(c.env)] = fs0.plain[d][toLowerCase(c.env)]
       /\ gpg'[d][toLowerCase(c.env)] = fs0.gpg[d][toLowerCase(c.env)]
  /\ dotenv'[c.dir] = fs0.dotenv[c.dir]
  /\ backups' = {}

\* C21: gpg -c and gpg -d run on a file only in the loop of a call whose
\* self-test with the passphrase of the call has passed, and the tool gets
\* that passphrase; a call whose self-test failed throws, and the files of
\* its environment stay what they were.
C21_SelfTestBeforeTool ==
  [][/\ ToolInvoked =>
          /\ cur.tested = "passed"
          /\ cur.phase = "files"
          /\ cur' = [cur EXCEPT !.successCount = cur'.successCount,
                                !.errorCount = cur'.errorCount,
                                !.fidx = cur'.fidx,
                                !.phase = cur'.phase]
          /\ gpgOps["test"] > 0
     /\ cur'.tested = "failed" =>
          /\ cur'.phase = "threw"
          /\ UntouchedIn(cur')]_vars

\* a file has gone through the tool after the self-test of its call passed
C21_Witness ==
  /\ cur.tested = "passed"
  /\ cur.phase = "files"
  /\ cur.fidx > 1
  /\ gpgOps["test"] = 1
  /\ gpgOps["encrypt"] + gpgOps["decrypt"] > 0

PlainFiles(t) == {x \in Dirs \X Envs : t.plain[x[1]][x[2]] # None}

GpgFiles(t) == {x \in Dirs \X Envs : t.gpg[x[1]][x[2]] # NoCipher}

Distinct(seq) == \A i, j \in 1..Len(seq) : i # j => seq[i] # seq[j]

\* C22: the items of a run are distinct and each is begun once, in order;
\* the files of a call are distinct and a run of the tool on one of them,
\* whatever its result, ends the handling of that file; so gpg -c runs at
\* most once per plaintext file and gpg -d at most once per .gpg file of
\* the tree, and a batch has one result per item.
C22_NoRetries ==
  [][/\ ToolInvoked =>
          /\ cur'.fidx = cur.fidx + 1 \/ cur'.phase # "files"
          /\ cur'.item = cur.item
          /\ cur'.files = cur.files
     /\ cur'.item # cur.item =>
          /\ cur'.item = idx
          /\ idx' = idx + 1
          /\ idx \notin active
     /\ Distinct(queue')
     /\ Distinct(cur'.files)
     /\ gpgOps'["encrypt"] <= Cardinality(PlainFiles(fs0))
     /\ gpgOps'["decrypt"] <= Cardinality(GpgFiles(fs0))
     /\ Len(results') <= Len(queue')
     /\ (pc' = "done" /\ opts.all /\ exitCode' = BatchExit(totalErrors')
           /\ queue' # <<>>) => Len(results') = Len(queue')]_vars

\* an encryption failed and the command went on to its end without a second
\* run of the tool
C22_Witness ==
  /\ opts.cmd = "encrypt"
  /\ pc = "done"
  /\ cur.phase = "files"
  /\ Len(cur.files) = 1
  /\ cur.errorCount = 1
  /\ gpgOps["encrypt"] = 1

\* C23: a backup file exists only between the createBackup of copy and the
\* decryption into .env that follows it; the step that runs gpg -d for
\* decrypt or copy leaves no backup, a failed one with the overwritten file
\* as it was before; so no backup file is left when the command is done.
C23_NoBackupLeft ==
  [][/\ pc' = "done" => backups' = {}
     /\ backups' # {} =>
          /\ opts.cmd = "copy"
          /\ cur'.phase = "files"
          /\ cur'.fidx = 1
          /\ backups' = cur'.backup
     /\ (ToolInvoked /\ opts.cmd \in {"decrypt", "copy"}) =>
          /\ backups' = {}
          /\ cur'.errorCount # cur.errorCount =>
               LET f == cur.files[cur.fidx]
               IN  IF opts.cmd = "decrypt"
                   THEN plain[f.dir][f.env] # None =>
                          plain'[f.dir][f.env] = plain[f.dir][f.env]
                   ELSE dotenv[cur.dir] # None =>
                          dotenv'[cur.dir] = dotenv[cur.dir]]_vars

\* a decrypt over an existing file failed and is done: the backup that was
\* taken is gone and the file is what it was
C23_Witness ==
  /\ opts.cmd = "decrypt"
  /\ pc = "done"
  /\ backedUp # {}
  /\ cur.errorCount = 1
  /\ backups = {}
  /\ plain = fs0.plain

(***************************************************************************)
(* Properties of the prompts.                                              *)
(***************************************************************************)
\* the prompts other than the one for the passphrase
OtherPrompts == prompted \ {"passphrase"}

\* the environments of the items begun so far
Begun == {queue[i].env : i \in 1..(idx - 1)}

C25_OverwriteNonInteractive ==
  (/\ opts.cmd = "decrypt"
   /\ ~opts.all
   /\ ~opts.interactive
   /\ opts.environment # ""
   /\ opts.passphrase = ExplicitPass
   /\ opts.overwrite) => prompted = {}

\* C26 (as claimed): an existing .env has another content than at the start
\* of a copy only if --overwrite was given or the overwrite confirmation was
\* shown (a declined confirmation ends the copy).
C26_CopyOverwritePermission ==
  opts.cmd = "copy" =>
    \A d \in Dirs :
      (fs0.dotenv[d] # None /\ dotenv[d] # fs0.dotenv[d]) =>
        opts.overwrite \/ "overwrite" \in prompted

(***************************************************************************)
(* Properties of the counters and of the files a command leaves alone.     *)
(***************************************************************************)
\* C27: in the loop of encrypt and of decrypt the two counters add up to
\* the number of files handled so far, so to the number of files selected
\* when the loop has ended.
C27_CountersCoverFiles ==
  (opts.cmd \in {"encrypt", "decrypt"} /\ cur.phase = "files") =>
    /\ cur.fidx <= Len(cur.files) + 1
    /\ cur.successCount + cur.errorCount = cur.fidx - 1
    /\ pc = "done" => cur.successCount + cur.errorCount = Len(cur.files)

\* the loop over two files has ended with one success and one failure
C27_Witness ==
  /\ opts.cmd \in {"encrypt", "decrypt"}
  /\ pc = "done"
  /\ cur.phase = "files"
  /\ Len(cur.files) = 2
  /\ cur.successCount = 1
  /\ cur.errorCount = 1

\* C28 (as claimed): no temporary file of the comparison is left once
\* encrypt has handled a file.
C28_NoTempFileLeft == opts.cmd = "encrypt" => temps = {}

\* C29: an encrypt run leaves every .env.<env> file, and a decrypt run
\* every .env.<env>.gpg file, as it was when the command started, whatever
\* the results of the tool.
C29_SourcesKept ==
  /\ opts.cmd = "encrypt" => plain = fs0.plain
  /\ opts.cmd = "decrypt" => gpg = fs0.gpg

\* an encrypt run has handled two files, one with success and one with a
\* failure, and the plaintext files are what they were
C29_Witness ==
  /\ opts.cmd = "encrypt"
  /\ pc = "done"
  /\ cur.successCount = 1
  /\ cur.errorCount = 1
  /\ gpg # fs0.gpg
  /\ plain = fs0.plain

\* a step that runs the self-test or gpg -c or gpg -d
PassphraseUsed ==
  \E k \in {"test", "encrypt", "decrypt"} : gpgOps'[k] # gpgOps[k]

\* C30: the passphrase of a call that runs the self-test, gpg -c or gpg -d
\* is not the empty string, whether it came from --passphrase, from .envrc
\* or from the prompt, in a single run and in a batch.
C30_PassphraseNotEmpty ==
  [][PassphraseUsed =>
       /\ cur'.passphrase # ""
       /\ cur'.source \in {"provided", "custom", "convention", "prompt"}
       /\ cur'.source = "provided" => cur'.passphrase = opts.passphrase
       /\ cur'.item = cur.item => cur'.passphrase = cur.passphrase]_vars

\* a batch, for which the options are not validated, has run the tool with
\* a passphrase typed at the prompt
C30_Witness ==
  /\ opts.cmd = "encrypt"
  /\ opts.all
  /\ cur.source = "prompt"
  /\ cur.passphrase = TypedPass
  /\ gpgOps["encrypt"] > 0

=============================================================================
